---- MODULE Spec2Model ----
(***************************************************************************)
(* A model of the three-stage document pipeline: split_pdf.py (splitter),  *)
(* batch_ocr.py (batch OCR driver) and merge_ocr_results.py (merger).      *)
(*                                                                         *)
(* File names and file contents are sequences of character codes, so that  *)
(* str comparison, str.endswith, "+" and the format specification :03d are *)
(* computed as Python computes them.  Durations are in tenths of a second  *)
(* (SLEEP_TIME = 1.2 s is 12).                                             *)
(***************************************************************************)
EXTENDS Integers, Sequences, FiniteSets, TLC

\* ------------------------------------------------------------------ bounds
\* Largest page count of a source PDF given to the splitter.
MaxSplitPages == 1001
\* Largest number of page files (page_001.pdf ...) in the driver's input directory.
MaxPages == 2
\* Largest value of MAX_RETRIES in the driver's environment.
MaxRetries == 2

\* ------------------------------------------------------- program constants
\* Field width of the page index in a page file name (":03d").
PadWidth == 3
\* time.sleep(5) after a timeout or an exception, in tenths of a second.
FlatWait == 50
\* wait_time = (retry + 1) * 2, in tenths of a second per attempt index.
BackoffUnit == 20
\* SLEEP_TIME default "1.2", in tenths of a second.
SleepTime == 12
\* The value of OCRExitCode the driver accepts.
ExitCodeSuccess == 1
\* Length of the "=" rule of the annotated merger's banner.
BannerRule == 60

\* --------------------------------------------------------------- strings
Range(s) == {s[i] : i \in DOMAIN s}

\* n >= 0 in decimal, as character codes ("0" is 48).
RECURSIVE Decimal(_)
Decimal(n) == IF n < 10 THEN <<48 + n>> ELSE Decimal(n \div 10) \o <<48 + (n % 10)>>

\* format(n, "0{w}d"): zero-filled on the left to at least w characters.
ZeroPad(n, w) ==
    LET d == Decimal(n)
    IN IF Len(d) >= w THEN d ELSE [i \in 1..(w - Len(d)) |-> 48] \o d

\* Python's a < b on str: the first differing character decides, a proper
\* prefix is smaller.
LexLess(a, b) ==
    \E k \in 1..(Len(a) + 1) :
        /\ \A j \in 1..(k - 1) : j <= Len(b) /\ a[j] = b[j]
        /\ \/ k = Len(a) + 1 /\ Len(b) >= k
           \/ k <= Len(a) /\ k <= Len(b) /\ a[k] < b[k]

\* A variant of the suffix test that accepts every name.
EndsWithAnything(s, suffix) == Len(s) >= 0 /\ Len(suffix) >= 0

\* s.endswith(suffix)
EndsWith(s, suffix) ==
    /\ Len(s) >= Len(suffix)
    /\ \A i \in 1..Len(suffix) : s[Len(s) - Len(suffix) + i] = suffix[i]

\* sorted(S) for a set S of distinct names (os.listdir yields each name once).
SortedList(S) ==
    [i \in 1..Cardinality(S) |->
        CHOOSE x \in S : Cardinality({y \in S : LexLess(y, x)}) = i - 1]

IsSortedSeq(q) == \A i \in 1..(Len(q) - 1) : LexLess(q[i], q[i + 1])

PdfExt == <<46, 112, 100, 102>>                  \* ".pdf"
TxtExt == <<46, 116, 120, 116>>                  \* ".txt"
PagePrefix == <<112, 97, 103, 101, 95>>          \* "page_"

\* f"page_{i+1:03d}.pdf", for the 1-based page index n = i + 1.
PageFileName(n) == PagePrefix \o ZeroPad(n, PadWidth) \o PdfExt

\* A variant of the text file name that replaces the extension.
TxtPathOfStem(pdf_file) == SubSeq(pdf_file, 1, Len(pdf_file) - 4) \o TxtExt

\* f"{pdf_file}.txt" in the output directory.
TxtPath(pdf_file) == pdf_file \o TxtExt

VARIABLES
    \* the splitter
    split_pc,        \* "shell" | "exited" : position of a split_pdf.py process
    split_exit,      \* its exit status (-1 while none)
    split_pages,     \* len(reader.pages) of the PDF it was given (-1 while none)
    split_written,   \* the output paths it wrote, in the order written
    split_ret,       \* the value split_pdf returned (-1 while none)
    \* the files the driver and the merger work on
    pdf_dir,         \* names in the driver's input directory
    ocr_text,        \* the directory ocr_text: name -> content
    merged,          \* the merger's output file: <<"none">> or <<"file", content>>
    stdout,          \* what the merger last reported
    \* a batch_ocr.py process
    pc, exit_code, argv, api_key, max_retries,
    pdf_files, idx, retry, success_count, failed_count, result, success,
    log,             \* the lines this process appended to ocr.log
    \* history of the current run
    status,          \* page file -> "pending" | "skipped" | "succeeded" | "failed"
    calls,           \* page file -> requests.post calls made for it
    failures,        \* page file -> attempts of it that failed
    events,          \* the network calls and sleeps of the run, in order
    text_at_start,   \* ocr_text when the process started
    \* history across runs
    recognized       \* text file -> ParsedText of the latest accepted response

split_vars == <<split_pc, split_exit, split_pages, split_written, split_ret>>
file_vars == <<pdf_dir, ocr_text, merged, stdout>>
proc_vars == <<pc, exit_code, argv, api_key, max_retries, pdf_files, idx, retry,
               success_count, failed_count, result, success, log>>
hist_vars == <<status, calls, failures, events, text_at_start, recognized>>
vars == <<split_vars, file_vars, proc_vars, hist_vars>>

\* ================================================================ splitter
\* split_pdf(input_pdf_path, output_dir) on a readable PDF of n pages, with
\* an output directory that holds no page files yet.
split_pdf(n) ==
    /\ split_pc = "shell"
    /\ split_pages' = n
    /\ split_written' = [i \in 1..n |-> PageFileName(i)]
    /\ split_ret' = n
    /\ split_exit' = 0
    /\ split_pc' = "exited"

\* split_pdf.py without a path argument, or with a path that does not exist.
split_main_rejects ==
    /\ split_pc = "shell"
    /\ split_pages' = -1
    /\ split_written' = <<>>
    /\ split_ret' = -1
    /\ split_exit' = 1
    /\ split_pc' = "exited"

\* ================================================================== driver
TextA == <<65>>                                   \* "A"
TextB == <<66>>                                   \* "B"
Placeholder == "your_api_key_here"
PagesDir == "pages"

\* What one call of ocr_single_pdf can yield: the parsed JSON object
\* ("dict"), the dict built for a body that is not JSON ("fallback"), parsed
\* JSON that is no object ("other"), or a raised requests Timeout or other
\* exception.  code is OCRExitCode (0: the key is absent), parsed the
\* ParsedText of each element of ParsedResults.
Reply(kind, code, parsed) == [kind |-> kind, code |-> code, parsed |-> parsed]
NoResult == Reply("none", 0, <<>>)
Replies ==
    { Reply("dict", ExitCodeSuccess, <<TextA, TextB>>),
      Reply("dict", ExitCodeSuccess, <<>>),
      Reply("dict", 3, <<>>),
      Reply("fallback", 0, <<>>),
      Reply("other", 0, <<>>),
      Reply("Timeout", 0, <<>>),
      Reply("Exception", 0, <<>>) }

\* isinstance(result, dict)
IsDict(r) == r.kind \in {"dict", "fallback"}
\* isinstance(result, dict) and result.get("OCRExitCode") == 1
Accepted(r) == IsDict(r) /\ r.code = ExitCodeSuccess
\* result["ParsedResults"][0]["ParsedText"] raises IndexError or KeyError
RaisesLookup(r) == Accepted(r) /\ Len(r.parsed) = 0
\* A variant of the lookup that takes the last element of ParsedResults.
LastParsedText(r) == r.parsed[Len(r.parsed)]

\* result["ParsedResults"][0]["ParsedText"]
FirstParsedText(r) == r.parsed[1]

\* os.path.exists of a directory argument: only the pages directory exists.
DirExists(d) == d = PagesDir
\* A variant of the key test that forgets the placeholder.
KeyRejectedIfMissing(k) == k \in {"None", ""}

\* not api_key or api_key == "your_api_key_here"
KeyRejected(k) == k \in {"None", ""} \/ k = Placeholder

\* A variant of the existence test that looks in the input directory.
ExistsInInputDir(txt_path) == txt_path \in pdf_dir

\* os.path.exists(txt_path)
Exists(txt_path) == txt_path \in DOMAIN ocr_text
\* open(txt_path, "w") followed by f.write(content)
WriteFile(dir, path, content) ==
    [p \in (DOMAIN dir) \cup {path} |-> IF p = path THEN content ELSE dir[p]]

\* One line of ocr.log: what it reports, the file it names and its numbers.
LogLine(kind, file, a, b) == [kind |-> kind, file |-> file, a |-> a, b |-> b]
\* A variant of the log that opens the file for writing, not appending.
LogOverwrite(lines, line) == IF Len(lines) >= 0 THEN <<line>> ELSE lines

\* self.log(message): the file is opened in append mode.
Log(lines, line) == Append(lines, line)

Call(file) == [type |-> "call", file |-> file, secs |-> 0]
Sleep(secs) == [type |-> "sleep", file |-> <<>>, secs |-> secs]

\* A variant of the back-off that multiplies by the 0-based loop index.
WaitTimeZeroBased(r) == r * BackoffUnit

\* wait_time = (retry + 1) * 2
WaitTime(r) == (r + 1) * BackoffUnit
\* A variant of the test that holds from the second attempt on only.
RetriesRemainAfterFirst(r) == r >= 1 /\ r < max_retries - 1

\* retry < self.max_retries - 1
RetriesRemain(r) == r < max_retries - 1

Set(f, x, v) == [f EXCEPT ![x] = v]

NoRun ==
    /\ pdf_files' = <<>> /\ idx' = 0 /\ retry' = 0
    /\ success_count' = 0 /\ failed_count' = 0
    /\ result' = NoResult /\ success' = "none" /\ log' = <<>>
    /\ status' = <<>> /\ calls' = <<>> /\ failures' = <<>> /\ events' = <<>>

\* The __main__ block: the three pre-flight checks, then OCRProcessor().
main(a, key, m) ==
    /\ pc = "shell"
    /\ argv' = a /\ api_key' = key
    /\ text_at_start' = ocr_text
    /\ IF Len(a) < 1 \/ ~DirExists(a[1]) \/ KeyRejected(key)
         THEN pc' = "exited" /\ exit_code' = 1 /\ max_retries' = 0
         ELSE pc' = "batch" /\ exit_code' = -1 /\ max_retries' = m
    /\ UNCHANGED <<pdf_files, idx, retry, success_count, failed_count, result,
                   success, log, status, calls, failures, events>>
    /\ UNCHANGED <<split_vars, file_vars, recognized>>

\* batch_process up to the loop: list, filter, sort, and stop if none.
discover ==
    /\ pc = "batch"
    /\ LET found == SortedList({f \in pdf_dir : EndsWith(f, PdfExt)})
       IN /\ pdf_files' = found
          /\ status' = [f \in Range(found) |-> "pending"]
          /\ calls' = [f \in Range(found) |-> 0]
          /\ failures' = [f \in Range(found) |-> 0]
          /\ IF Len(found) = 0
               THEN /\ log' = Log(log, LogLine("no_pdf", <<>>, 0, 0))
                    /\ pc' = "exited" /\ exit_code' = 0 /\ idx' = 0
               ELSE /\ log' = Log(Log(log, LogLine("start", <<>>, Len(found), 0)),
                                  LogLine("rule", <<>>, 0, 0))
                    /\ pc' = "page" /\ exit_code' = -1 /\ idx' = 1
    /\ success_count' = 0 /\ failed_count' = 0
    /\ UNCHANGED <<argv, api_key, max_retries, retry, result, success, events,
                   text_at_start, recognized>>
    /\ UNCHANGED <<split_vars, file_vars>>

\* A variant of the skip that returns False.
SkipReturnsFalse(file, lines) ==
    /\ log' = Log(lines, LogLine("skip", file, 0, 0))
    /\ status' = Set(status, file, "skipped")
    /\ success' = FALSE /\ pc' = "returned"

\* The skip of a processed page: the skip line, return True.
Skip(file, lines) ==
    /\ log' = Log(lines, LogLine("skip", file, 0, 0))
    /\ status' = Set(status, file, "skipped")
    /\ success' = TRUE /\ pc' = "returned"

\* The loop body up to the retry loop of process_single_file: the progress
\* line, then the skip of a page whose text file exists.
begin_page ==
    /\ pc = "page"
    /\ LET file == pdf_files[idx]
           progress == Log(log, LogLine("progress", <<>>, idx, Len(pdf_files)))
       IN IF Exists(TxtPath(file))
            THEN Skip(file, progress)
            ELSE IF max_retries <= 0
            THEN /\ log' = Log(progress, LogLine("final_failure", file, 0, 0))
                 /\ status' = Set(status, file, "failed")
                 /\ success' = FALSE /\ pc' = "returned"
            ELSE /\ log' = progress
                 /\ status' = status
                 /\ success' = "none" /\ pc' = "attempt"
    /\ retry' = 0
    /\ UNCHANGED <<exit_code, argv, api_key, max_retries, pdf_files, idx,
                   success_count, failed_count, result, calls, failures, events,
                   text_at_start, recognized>>
    /\ UNCHANGED <<split_vars, file_vars>>

\* A variant of the retry loop in which the final failure is raised and ends
\* the process instead of returning False.
NextAttemptAborts(file, lines) ==
    /\ failures' = Set(failures, file, failures[file] + 1)
    /\ IF retry + 1 < max_retries
         THEN /\ retry' = retry + 1 /\ pc' = "attempt"
              /\ log' = lines /\ status' = status /\ success' = "none"
         ELSE /\ retry' = retry /\ pc' = "exited"
              /\ log' = Log(lines, LogLine("final_failure", file, 0, 0))
              /\ status' = Set(status, file, "failed") /\ success' = FALSE

\* A variant of the retry loop that gives up after the first failed attempt.
NextAttemptGivesUp(file, lines) ==
    /\ failures' = Set(failures, file, failures[file] + 1)
    /\ retry' = retry /\ pc' = "returned"
    /\ log' = Log(lines, LogLine("final_failure", file, 0, 0))
    /\ status' = Set(status, file, "failed") /\ success' = FALSE

\* A variant of the retry loop that makes one attempt more.
NextAttemptOneMore(file, lines) ==
    /\ failures' = Set(failures, file, failures[file] + 1)
    /\ IF retry + 1 <= max_retries
         THEN /\ retry' = retry + 1 /\ pc' = "attempt"
              /\ log' = lines /\ status' = status /\ success' = "none"
         ELSE /\ retry' = retry /\ pc' = "returned"
              /\ log' = Log(lines, LogLine("final_failure", file, 0, 0))
              /\ status' = Set(status, file, "failed") /\ success' = FALSE

\* The end of a failed attempt: the next iteration of the retry loop, or the
\* final failure after the last one.
NextAttempt(file, lines) ==
    /\ failures' = Set(failures, file, failures[file] + 1)
    /\ IF retry + 1 < max_retries
         THEN /\ retry' = retry + 1 /\ pc' = "attempt"
              /\ log' = lines /\ status' = status /\ success' = "none"
         ELSE /\ retry' = retry /\ pc' = "returned"
              /\ log' = Log(lines, LogLine("final_failure", file, 0, 0))
              /\ status' = Set(status, file, "failed") /\ success' = FALSE

\* One iteration of the retry loop whose response is accepted: the text file
\* is opened for writing (created or truncated).
attempt_accepted(r) ==
    /\ pc = "attempt"
    /\ Accepted(r) /\ ~RaisesLookup(r)
    /\ LET file == pdf_files[idx]
       IN /\ log' = Log(log, LogLine("attempt", file, retry + 1, max_retries))
          /\ events' = Append(events, Call(file))
          /\ calls' = Set(calls, file, calls[file] + 1)
          /\ result' = r
          /\ recognized' = WriteFile(recognized, TxtPath(file), FirstParsedText(r))
          /\ ocr_text' = WriteFile(ocr_text, TxtPath(file), <<>>)
          /\ pc' = "opened"
    /\ UNCHANGED <<exit_code, argv, api_key, max_retries, pdf_files, idx, retry,
                   success_count, failed_count, success, status, failures,
                   text_at_start>>
    /\ UNCHANGED <<split_vars, pdf_dir, merged, stdout>>

\* f.write(text), the success line, return True.
write_text ==
    /\ pc = "opened"
    /\ LET file == pdf_files[idx]
       IN /\ ocr_text' = WriteFile(ocr_text, TxtPath(file), FirstParsedText(result))
          /\ log' = Log(log, LogLine("success", file, 0, 0))
          /\ status' = Set(status, file, "succeeded")
          /\ success' = TRUE /\ pc' = "returned"
    /\ UNCHANGED <<exit_code, argv, api_key, max_retries, pdf_files, idx, retry,
                   success_count, failed_count, result, calls, failures, events,
                   text_at_start, recognized>>
    /\ UNCHANGED <<split_vars, pdf_dir, merged, stdout>>

\* One iteration whose response is not accepted: the else branch.
attempt_error(r) ==
    /\ pc = "attempt"
    /\ r.kind \in {"dict", "fallback", "other"} /\ ~Accepted(r)
    /\ LET file == pdf_files[idx]
           tried == Log(log, LogLine("attempt", file, retry + 1, max_retries))
           told == Log(tried, LogLine("error", file, 0, 0))
       IN /\ calls' = Set(calls, file, calls[file] + 1)
          /\ result' = r
          /\ IF RetriesRemain(retry)
               THEN /\ events' = events \o <<Call(file), Sleep(WaitTime(retry))>>
                    /\ NextAttempt(file, Log(told, LogLine("wait", file, WaitTime(retry), 0)))
               ELSE /\ events' = Append(events, Call(file))
                    /\ NextAttempt(file, told)
    /\ UNCHANGED <<exit_code, argv, api_key, max_retries, pdf_files, idx,
                   success_count, failed_count, text_at_start, recognized>>
    /\ UNCHANGED <<split_vars, file_vars>>

\* One iteration in which requests.post raises Timeout.
attempt_timeout(r) ==
    /\ pc = "attempt"
    /\ r.kind = "Timeout"
    /\ LET file == pdf_files[idx]
           tried == Log(log, LogLine("attempt", file, retry + 1, max_retries))
       IN /\ calls' = Set(calls, file, calls[file] + 1)
          /\ result' = r
          /\ events' = IF RetriesRemain(retry)
                         THEN events \o <<Call(file), Sleep(FlatWait)>>
                         ELSE Append(events, Call(file))
          /\ NextAttempt(file, Log(tried, LogLine("timeout", file, 0, 0)))
    /\ UNCHANGED <<exit_code, argv, api_key, max_retries, pdf_files, idx,
                   success_count, failed_count, text_at_start, recognized>>
    /\ UNCHANGED <<split_vars, file_vars>>

\* One iteration in which another exception is raised: by requests.post, or
\* by the lookup of the first parsed text in an accepted response.
attempt_exception(r) ==
    /\ pc = "attempt"
    /\ r.kind = "Exception" \/ RaisesLookup(r)
    /\ LET file == pdf_files[idx]
           tried == Log(log, LogLine("attempt", file, retry + 1, max_retries))
       IN /\ calls' = Set(calls, file, calls[file] + 1)
          /\ result' = r
          /\ events' = IF RetriesRemain(retry)
                         THEN events \o <<Call(file), Sleep(FlatWait)>>
                         ELSE Append(events, Call(file))
          /\ NextAttempt(file, Log(tried, LogLine("exception", file, 0, 0)))
    /\ UNCHANGED <<exit_code, argv, api_key, max_retries, pdf_files, idx,
                   success_count, failed_count, text_at_start, recognized>>
    /\ UNCHANGED <<split_vars, file_vars>>

\* A variant of the failure counter that counts successes.
CountFailedSwapped(n, ok) == IF ok = TRUE THEN n + 1 ELSE n

\* A variant of the success counter that counts every page.
CountSuccessAlways(n, ok) == IF ok \in {TRUE, FALSE} THEN n + 1 ELSE n

\* if success: success_count += 1 / else: failed_count += 1
CountSuccess(n, ok) == IF ok = TRUE THEN n + 1 ELSE n
CountFailed(n, ok) == IF ok = TRUE THEN n ELSE n + 1

\* A variant of the pause test that also pauses after the last page.
PauseAlways(i, total) == i <= total

\* if idx < total: time.sleep(self.sleep_time)
PauseDue(i, total) == i < total

\* The rest of the loop body: the counters and the pause; after the last
\* page, the summary.
finish_page ==
    /\ pc = "returned"
    /\ success_count' = CountSuccess(success_count, success)
    /\ failed_count' = CountFailed(failed_count, success)
    /\ result' = NoResult /\ success' = "none" /\ retry' = 0
    /\ events' = IF PauseDue(idx, Len(pdf_files))
                    THEN Append(events, Sleep(SleepTime))
                    ELSE events
    /\ IF idx < Len(pdf_files)
         THEN /\ idx' = idx + 1 /\ pc' = "page" /\ exit_code' = exit_code
              /\ log' = log
         ELSE /\ idx' = idx /\ pc' = "exited" /\ exit_code' = 0
              /\ log' = log \o
                   << LogLine("rule", <<>>, 0, 0),
                      LogLine("done", <<>>, 0, 0),
                      LogLine("summary_ok", <<>>, success_count', Len(pdf_files)),
                      LogLine("summary_failed", <<>>, failed_count', Len(pdf_files)),
                      LogLine("saved", <<>>, 0, 0) >>
    /\ UNCHANGED <<argv, api_key, max_retries, pdf_files, status, calls, failures,
                   text_at_start, recognized>>
    /\ UNCHANGED <<split_vars, file_vars>>

\* The process has ended; the next command can be given.
exit ==
    /\ pc = "exited"
    /\ pc' = "shell" /\ exit_code' = -1
    /\ argv' = <<>> /\ api_key' = "None" /\ max_retries' = 0
    /\ text_at_start' = ocr_text
    /\ NoRun
    /\ UNCHANGED <<split_vars, file_vars, recognized>>

\* The process is terminated (killed, power loss) while it runs.
terminate ==
    /\ pc \in {"batch", "page", "attempt", "opened", "returned"}
    /\ pc' = "shell" /\ exit_code' = -1
    /\ argv' = <<>> /\ api_key' = "None" /\ max_retries' = 0
    /\ text_at_start' = ocr_text
    /\ NoRun
    /\ UNCHANGED <<split_vars, file_vars, recognized>>

\* ================================================================== merger
NotesFile == <<110, 46, 116, 120, 116>>           \* "n.txt"
NotesText == <<78>>                               \* "N"
PdfBytes == <<37, 80, 68, 70>>                    \* "%PDF"
OcrTextDir == "ocr_text"

\* The files of a directory the merger is pointed at: the driver's output
\* directory or its input directory.
DirFiles(dir) ==
    IF dir = OcrTextDir THEN ocr_text
    ELSE [f \in pdf_dir |-> IF f = NotesFile THEN NotesText ELSE PdfBytes]

\* sorted([f for f in os.listdir(input_dir) if f.endswith(".txt")])
TxtFiles(dir) == SortedList({f \in DOMAIN DirFiles(dir) : EndsWith(f, TxtExt)})

Rule == [i \in 1..BannerRule |-> 61]              \* "=" * 60
FileLabel == <<128196, 32, 25991, 20214, 58, 32>> \* the label before the name
\* The three banner strings appended before a file's content.
Banner(txt_file) ==
    (<<10>> \o Rule \o <<10>>) \o (FileLabel \o txt_file \o <<10>>) \o (Rule \o <<10>>)
\* A variant of the separator that is one line break.
SingleNewline == <<10>>

Separator == <<10, 10>>                           \* "\n\n"

\* f.read() of a file opened with open(path, "r", encoding="utf-8"): the
\* default newline mode reads "\r\n" and "\r" as "\n" (10 is "\n", 13 "\r").
RECURSIVE ReadText(_, _)
ReadText(bytes, k) ==
    IF k > Len(bytes) THEN <<>>
    ELSE IF bytes[k] # 13 THEN <<bytes[k]>> \o ReadText(bytes, k + 1)
    ELSE IF k < Len(bytes) /\ bytes[k + 1] = 10 THEN <<10>> \o ReadText(bytes, k + 2)
    ELSE <<10>> \o ReadText(bytes, k + 1)

\* content = f.read() of a file of the directory.
Content(dir, txt_file) == ReadText(DirFiles(dir)[txt_file], 1)

\* f.writelines(all_text) of the annotated merge of files[k..].
RECURSIVE AnnotatedText(_, _, _)
AnnotatedText(dir, files, k) ==
    IF k > Len(files) THEN <<>>
    ELSE Banner(files[k]) \o Content(dir, files[k]) \o AnnotatedText(dir, files, k + 1)

\* f.writelines(all_text) of the plain merge of files[k..].
RECURSIVE CleanText(_, _, _)
CleanText(dir, files, k) ==
    IF k > Len(files) THEN <<>>
    ELSE Content(dir, files[k]) \o Separator \o CleanText(dir, files, k + 1)

Report(kind, n) == [kind |-> kind, n |-> n]

\* The driver never reads the merged file and the merger writes nothing the
\* driver reads, so a run after a merge is a run before it: the merge is
\* taken as the last command.
merge_ocr_results(input_dir) ==
    /\ pc = "shell"
    /\ LET txt_files == TxtFiles(input_dir)
       IN IF Len(txt_files) = 0
            THEN /\ stdout' = Report("no_txt_files", 0)
                 /\ merged' = merged
            ELSE /\ stdout' = Report("merged", Len(txt_files))
                 /\ merged' = <<"file", AnnotatedText(input_dir, txt_files, 1)>>
    /\ pc' = "merged"
    /\ argv' = <<input_dir>>
    /\ UNCHANGED <<exit_code, api_key, max_retries, pdf_files, idx, retry,
                   success_count, failed_count, result, success, log>>
    /\ UNCHANGED <<split_vars, pdf_dir, ocr_text, hist_vars>>

merge_ocr_results_clean(input_dir) ==
    /\ pc = "shell"
    /\ LET txt_files == TxtFiles(input_dir)
       IN IF Len(txt_files) = 0
            THEN /\ stdout' = Report("no_txt_files", 0)
                 /\ merged' = merged
            ELSE /\ stdout' = Report("merged", Len(txt_files))
                 /\ merged' = <<"file", CleanText(input_dir, txt_files, 1)>>
    /\ pc' = "merged"
    /\ argv' = <<input_dir, "--clean">>
    /\ UNCHANGED <<exit_code, api_key, max_retries, pdf_files, idx, retry,
                   success_count, failed_count, result, success, log>>
    /\ UNCHANGED <<split_vars, pdf_dir, ocr_text, hist_vars>>

\* ========================================================== specifications
\* The input directories: an empty one, one that holds a page file only, and
\* the first k page files of a split next to a file that is no PDF.
InputDirs ==
    {{}, {PageFileName(1)}}
        \cup {{PageFileName(i) : i \in 1..k} \cup {NotesFile} : k \in 0..MaxPages}
ArgvChoices == {<<>>, <<"nowhere">>, <<PagesDir>>}
KeyChoices == {"None", "", Placeholder, "K86"}

InitProcess ==
    /\ pc = "shell" /\ exit_code = -1
    /\ argv = <<>> /\ api_key = "None" /\ max_retries = 0
    /\ pdf_files = <<>> /\ idx = 0 /\ retry = 0
    /\ success_count = 0 /\ failed_count = 0
    /\ result = NoResult /\ success = "none" /\ log = <<>>
    /\ status = <<>> /\ calls = <<>> /\ failures = <<>> /\ events = <<>>
    /\ text_at_start = <<>> /\ recognized = <<>>
    /\ ocr_text = <<>> /\ merged = <<"none">> /\ stdout = Report("", 0)

Init ==
    /\ InitProcess
    /\ pdf_dir \in InputDirs
    /\ split_pc = "off" /\ split_exit = -1 /\ split_pages = -1
    /\ split_written = <<>> /\ split_ret = -1

Run ==
    \/ discover
    \/ begin_page
    \/ \E r \in Replies : attempt_accepted(r)
    \/ write_text
    \/ \E r \in Replies : attempt_error(r)
    \/ \E r \in Replies : attempt_timeout(r)
    \/ \E r \in Replies : attempt_exception(r)
    \/ finish_page

Next ==
    \/ \E a \in ArgvChoices, key \in KeyChoices, m \in 0..MaxRetries : main(a, key, m)
    \/ Run
    \/ exit
    \/ \E d \in {OcrTextDir, PagesDir} : merge_ocr_results(d)
    \/ \E d \in {OcrTextDir, PagesDir} : merge_ocr_results_clean(d)

Spec == Init /\ [][Next]_vars

\* The process runs until it ends: nothing suspends it.
FairSpec == Spec /\ WF_vars(Run)

NextKilled == Next \/ terminate
SpecKilled == Init /\ [][NextKilled]_vars

InitSplit ==
    /\ InitProcess
    /\ pdf_dir = {}
    /\ split_pc = "shell" /\ split_exit = -1 /\ split_pages = -1
    /\ split_written = <<>> /\ split_ret = -1

NextSplit ==
    \/ /\ \E n \in 1..MaxSplitPages : split_pdf(n)
       /\ UNCHANGED <<file_vars, proc_vars, hist_vars>>
    \/ /\ split_main_rejects
       /\ UNCHANGED <<file_vars, proc_vars, hist_vars>>

SpecSplit == InitSplit /\ [][NextSplit]_vars

\* The driver with a valid command line and up to RetryDepth attempts per
\* page, on an input directory of one or two pages.
RetryDepth == MaxRetries + 1
RetryDirs == {{PageFileName(i) : i \in 1..k} : k \in 1..2}

InitRetry ==
    /\ InitProcess
    /\ pdf_dir \in RetryDirs
    /\ split_pc = "off" /\ split_exit = -1 /\ split_pages = -1
    /\ split_written = <<>> /\ split_ret = -1

NextRetry ==
    \/ \E m \in 0..RetryDepth : main(<<PagesDir>>, "K86", m)
    \/ Run
    \/ exit

SpecRetry == InitRetry /\ [][NextRetry]_vars

\* The driver on the input directories a user can point it at: the page
\* files of a split, alone or next to a file that is no PDF, and a page file
\* next to a copy of it whose name repeats the extension.
CopyName == PageFileName(1) \o PdfExt           \* "page_001.pdf.pdf"
NameDirs ==
    { {PageFileName(1), PageFileName(2)},
      {PageFileName(1), PageFileName(2), NotesFile},
      {PageFileName(1), CopyName} }

InitNames ==
    /\ InitProcess
    /\ pdf_dir \in NameDirs
    /\ split_pc = "off" /\ split_exit = -1 /\ split_pages = -1
    /\ split_written = <<>> /\ split_ret = -1

NextNames ==
    \/ \E m \in 0..1 : main(<<PagesDir>>, "K86", m)
    \/ Run
    \/ exit

SpecNames == InitNames /\ [][NextNames]_vars

\* The merger on its own: the output directory holds the text files of some
\* of the first MaxPages pages, each with a text that an earlier driver run
\* wrote (a ParsedText may hold "\r\n" line breaks).
TextCrLf == <<65, 13, 10, 66>>                    \* "A\r\nB"
MergeTexts == {TextA, TextB, TextCrLf}
MergeDirs ==
    UNION {[S -> MergeTexts] : S \in SUBSET {TxtPath(PageFileName(i)) : i \in 1..MaxPages}}

InitMerge ==
    /\ pc = "shell" /\ exit_code = -1
    /\ argv = <<>> /\ api_key = "None" /\ max_retries = 0
    /\ pdf_files = <<>> /\ idx = 0 /\ retry = 0
    /\ success_count = 0 /\ failed_count = 0
    /\ result = NoResult /\ success = "none" /\ log = <<>>
    /\ status = <<>> /\ calls = <<>> /\ failures = <<>> /\ events = <<>>
    /\ ocr_text \in MergeDirs
    /\ text_at_start = ocr_text /\ recognized = ocr_text
    /\ merged = <<"none">> /\ stdout = Report("", 0)
    /\ pdf_dir \in InputDirs
    /\ split_pc = "off" /\ split_exit = -1 /\ split_pages = -1
    /\ split_written = <<>> /\ split_ret = -1

NextMerge ==
    \/ \E d \in {OcrTextDir, PagesDir} : merge_ocr_results(d)
    \/ \E d \in {OcrTextDir, PagesDir} : merge_ocr_results_clean(d)

SpecMerge == InitMerge /\ [][NextMerge]_vars

\* ================================================================== claims
Pages == Range(pdf_files)
HadText(f) == TxtPath(f) \in DOMAIN text_at_start
CallsFor(f) == Cardinality({k \in DOMAIN events : events[k] = Call(f)})
\* The page with index i of the list has been through process_single_file.
Processed(i) == i < idx \/ (i = idx /\ pc = "returned") \/ pc = "exited"
\* batch_process went through all its pages and logged the summary.
Completed == pc = "exited" /\ exit_code = 0 /\ Len(pdf_files) > 0
FailedPages == {f \in Pages : status[f] = "failed"}

\* C1: a page whose text file exists when the page is processed ends skipped
\* and is reported as a success, no network call is made for it, and its
\* text file keeps the content it had.
C1_SkipExisting ==
    \A i \in 1..Len(pdf_files) :
        LET f == pdf_files[i]
            t == TxtPath(f)
        IN HadText(f) =>
             /\ calls[f] = 0 /\ CallsFor(f) = 0
             /\ t \in DOMAIN ocr_text /\ ocr_text[t] = text_at_start[t]
             /\ status[f] \in {"pending", "skipped"}
             /\ Processed(i) => status[f] = "skipped"
             /\ (i = idx /\ pc = "returned") => success = TRUE

\* A run has skipped one page and recognized another.
C1_Witness ==
    /\ Completed
    /\ \E f \in Pages : HadText(f) /\ status[f] = "skipped"
    /\ \E f \in Pages : status[f] = "succeeded"

AllSkippedUnchanged ==
    /\ \A f \in Pages : status[f] = "skipped" /\ calls[f] = 0
    /\ \A k \in DOMAIN events : events[k].type # "call"
    /\ ocr_text = text_at_start

\* C2 as stated: a run that follows an earlier run (no text file exists
\* before the first run, so a run that starts with one is a later run) skips
\* every page, makes no network call and leaves the text files as they were,
\* whatever the API answered in the earlier run (stated for runs that are
\* allowed at least one attempt per page).
C2_SecondRunSkipsAll ==
    (Completed /\ DOMAIN text_at_start # {} /\ max_retries > 0) => AllSkippedUnchanged

\* C2 amended: a run that starts with the text file of every discovered page
\* (as after a run in which every page was skipped or succeeded) skips every
\* page, makes no network call and leaves the text files as they were.
C2_SecondRunAfterSuccess ==
    (Completed /\ \A f \in Pages : HadText(f)) => AllSkippedUnchanged

C2_Witness ==
    Completed /\ Len(pdf_files) >= 2 /\ \A f \in Pages : HadText(f)

\* C3: a page without a text file whose first K < max_retries attempts fail
\* is attempted again; when attempt K + 1 is accepted the page ends
\* succeeded, its text file is written, and K + 1 network calls were made.
C3_RetryThenSucceed ==
    \A i \in 1..Len(pdf_files) :
        LET f == pdf_files[i]
            t == TxtPath(f)
        IN ~HadText(f) =>
             /\ status[f] = "failed" => failures[f] >= max_retries
             /\ (i = idx /\ pc = "opened") =>
                    /\ failures[f] = retry /\ retry < max_retries
                    /\ calls[f] = failures[f] + 1
             /\ (i = idx /\ pc = "returned" /\ Accepted(result) /\ ~RaisesLookup(result)) =>
                    status[f] = "succeeded"
             /\ status[f] = "succeeded" =>
                    /\ t \in DOMAIN ocr_text /\ ocr_text[t] = recognized[t]
                    /\ failures[f] < max_retries
                    /\ calls[f] = failures[f] + 1 /\ CallsFor(f) = failures[f] + 1

\* A page succeeded at its second attempt.
C3_Witness ==
    \E f \in Pages : status[f] = "succeeded" /\ failures[f] = 1 /\ calls[f] = 2

\* C4: a page without a text file whose max_retries attempts all fail ends
\* failed, has no text file afterwards, and is counted in the failed count of
\* the summary.
C4_ExhaustedIsFailed ==
    /\ \A i \in 1..Len(pdf_files) :
           LET f == pdf_files[i]
           IN (~HadText(f) /\ failures[f] >= max_retries) =>
                /\ TxtPath(f) \notin DOMAIN ocr_text
                /\ status[f] \in {"pending", "failed"}
                /\ (Processed(i) \/ failures[f] > 0) => status[f] = "failed"
    /\ Completed =>
           /\ failed_count = Cardinality(FailedPages)
           /\ \E k \in DOMAIN log :
                  log[k] = LogLine("summary_failed", <<>>, Cardinality(FailedPages),
                                   Len(pdf_files))

\* A batch is complete in which a page failed at every one of two attempts.
C4_Witness ==
    /\ Completed
    /\ \E f \in Pages : status[f] = "failed" /\ failures[f] = 2 /\ max_retries = 2

\* C5: a page the driver skips holds the complete text of an accepted
\* recognition of that page, also when earlier runs were terminated.
C5_SkippedIsComplete ==
    \A f \in Pages :
        status[f] = "skipped" =>
            /\ TxtPath(f) \in DOMAIN recognized
            /\ ocr_text[TxtPath(f)] = recognized[TxtPath(f)]

Terminal == {"skipped", "succeeded", "failed"}
SummaryKinds == <<"rule", "done", "summary_ok", "summary_failed", "saved">>
\* The log ends with the five lines of the summary.
SummaryLogged ==
    /\ Len(log) >= Len(SummaryKinds)
    /\ \A k \in 1..Len(SummaryKinds) :
           log[Len(log) - Len(SummaryKinds) + k].kind = SummaryKinds[k]

\* C6: once pages are discovered, whatever the API answers, the batch run
\* reaches its end with every discovered page in one terminal state and the
\* summary logged; a page that reached a terminal state keeps it, and the
\* loop goes from every page but the last to the next page.
C6_FailureIsolation ==
    /\ [][ \A f \in DOMAIN status :
              (status[f] # "pending" /\ pc' # "shell") =>
                  (f \in DOMAIN status' /\ status'[f] = status[f]) ]_vars
    /\ [][ (pc = "returned" /\ idx < Len(pdf_files)) =>
              (pc' = "page" /\ idx' = idx + 1 /\ pdf_files' = pdf_files) ]_vars
    /\ (pc = "page") ~>
           (Completed /\ SummaryLogged /\ \A f \in Pages : status[f] \in Terminal)

\* A batch is complete whose first page failed and whose second succeeded.
C6_Witness ==
    /\ Completed /\ SummaryLogged /\ Len(pdf_files) >= 2
    /\ status[pdf_files[1]] = "failed" /\ status[pdf_files[2]] = "succeeded"

SuccessCode(r) == r.kind \in {"dict", "fallback"} /\ r.code = 1
HasParsedText(r) == Len(r.parsed) >= 1

\* C7: the page being processed is succeeded, with the first parsed text as
\* its text file, exactly when the response carries the success code and a
\* parsed text; a response with the success code and no parsed text leaves no
\* text file and the page not succeeded, and counts as a failed attempt that
\* is retried or, after the last attempt, ends the page failed.
C7_SuccessCondition ==
    pc \in {"attempt", "opened", "returned"} =>
        LET f == pdf_files[idx]
            t == TxtPath(f)
            good == SuccessCode(result) /\ HasParsedText(result)
        IN /\ pc = "opened" => good
           /\ pc = "returned" => (status[f] = "succeeded" <=> good)
           /\ status[f] = "succeeded" => (t \in DOMAIN ocr_text /\ ocr_text[t] = result.parsed[1])
           /\ (result.kind # "none" /\ ~good) => t \notin DOMAIN ocr_text
           /\ (SuccessCode(result) /\ ~HasParsedText(result)) =>
                  /\ status[f] # "succeeded" /\ failures[f] >= 1
                  /\ \/ pc = "attempt" /\ retry = failures[f] /\ retry < max_retries
                     \/ /\ pc = "returned" /\ success = FALSE
                        /\ status[f] = "failed" /\ failures[f] = max_retries

\* A response with the success code and no parsed text is being retried.
C7_Witness ==
    /\ pc = "attempt" /\ retry >= 1
    /\ SuccessCode(result) /\ ~HasParsedText(result)

HasSuffix(f, ext) ==
    Len(f) >= Len(ext) /\ SubSeq(f, Len(f) - Len(ext) + 1, Len(f)) = ext

\* C8: on an input directory without a .pdf file batch_process logs that it
\* found none and returns, with no network call and no text file written; on
\* an input directory without a .txt file either merger reports that it found
\* none and returns, with no output file written.
C8_NothingFound ==
    /\ ( /\ \A f \in pdf_dir : ~HasSuffix(f, PdfExt)
         /\ pc \in {"page", "attempt", "opened", "returned", "exited"}
         /\ exit_code # 1 ) =>
            /\ pc = "exited" /\ exit_code = 0
            /\ log = <<LogLine("no_pdf", <<>>, 0, 0)>>
            /\ events = <<>> /\ status = <<>>
            /\ ocr_text = text_at_start /\ merged = <<"none">>
    /\ ( /\ pc = "merged"
         /\ \A f \in DOMAIN DirFiles(argv[1]) : ~HasSuffix(f, TxtExt) ) =>
            /\ stdout = Report("no_txt_files", 0)
            /\ merged = <<"none">> /\ ocr_text = text_at_start

\* A merger was run on a directory that holds a page file only.
C8_Witness ==
    /\ pc = "merged" /\ argv[1] = PagesDir /\ pdf_dir = {PageFileName(1)}
    /\ stdout = Report("no_txt_files", 0)

\* C9: a batch_ocr.py process started without a directory argument, with a
\* directory that does not exist, or with a missing or placeholder API key
\* has exited with status 1 without a page processed, a network call made or
\* a text file written.
C9_Preflight ==
    ( /\ pc \in {"batch", "page", "attempt", "opened", "returned", "exited"}
      /\ \/ argv = <<>>
         \/ argv[1] # "pages"
         \/ api_key \in {"None", "", "your_api_key_here"} ) =>
        /\ pc = "exited" /\ exit_code = 1
        /\ pdf_files = <<>> /\ status = <<>> /\ events = <<>> /\ log = <<>>
        /\ ocr_text = text_at_start

\* A run with the placeholder key was refused while text files exist.
C9_Witness ==
    /\ pc = "exited" /\ exit_code = 1
    /\ argv = <<PagesDir>> /\ api_key = Placeholder

\* C10: split_pdf on a PDF of N pages returns N and writes N files, the file
\* of page i named with i zero-padded to three digits, and the names sort
\* (as str) in page order: each name is smaller than the next page's name.
C10_SplitOrder ==
    (split_pc = "exited" /\ split_exit = 0) =>
        /\ split_ret = split_pages
        /\ Len(split_written) = split_pages
        /\ Cardinality(Range(split_written)) = split_pages
        /\ \A i \in 1..split_pages : HasSuffix(split_written[i], ZeroPad(i, 3) \o PdfExt)
        /\ IsSortedSeq(split_written)

RECURSIVE SumOver(_, _)
SumOver(fn, S) ==
    IF S = {} THEN 0
    ELSE LET x == CHOOSE y \in S : TRUE IN fn[x] + SumOver(fn, S \ {x})

\* The names of the merged directory that end in ".txt".
Matching == {f \in DOMAIN DirFiles(argv[1]) : HasSuffix(f, TxtExt)}
RawText == [f \in Matching |-> DirFiles(argv[1])[f]]
\* A text with "\r\n" and "\r" read as "\n": a "\n" right after a "\r" is
\* dropped, and every "\r" left is a "\n".
LineEndingsRead(raw) ==
    LET kept == {i \in DOMAIN raw : ~(raw[i] = 10 /\ i > 1 /\ raw[i - 1] = 13)}
        at(j) == CHOOSE i \in kept : Cardinality({h \in kept : h < i}) = j - 1
    IN [j \in 1..Cardinality(kept) |-> IF raw[at(j)] = 13 THEN 10 ELSE raw[at(j)]]
NormalText == [f \in Matching |-> LineEndingsRead(RawText[f])]

\* out is made of one block per matching file, in lexicographic order of the
\* names, the block of f being text[f] followed by a blank-line separator.
PlainBlocks(out, text) ==
    LET size == [f \in Matching |-> Len(text[f]) + 2]
    IN /\ Len(out) = SumOver(size, Matching)
       /\ \A f \in Matching :
              LET off == SumOver(size, {g \in Matching : LexLess(g, f)})
              IN /\ SubSeq(out, off + 1, off + Len(text[f])) = text[f]
                 /\ SubSeq(out, off + Len(text[f]) + 1, off + size[f]) = <<10, 10>>

\* out is made of one block per matching file, in lexicographic order of the
\* names, the block of f being a banner (a rule, a line that ends with the
\* name f, a rule) immediately followed by text[f].
BannerBlocks(out, text) ==
    LET head == 1 + 60 + 1 + 6
        banner == [f \in Matching |-> head + Len(f) + 1 + 60 + 1]
        size == [f \in Matching |-> banner[f] + Len(text[f])]
    IN /\ Len(out) = SumOver(size, Matching)
       /\ \A f \in Matching :
              LET off == SumOver(size, {g \in Matching : LexLess(g, f)})
              IN /\ out[off + 1] = 10
                 /\ \A k \in 2..61 : out[off + k] = 61
                 /\ SubSeq(out, off + head + 1, off + head + Len(f) + 1) = f \o <<10>>
                 /\ SubSeq(out, off + banner[f] + 1, off + size[f]) = text[f]

MergedAs(text) ==
    (pc = "merged" /\ Matching # {}) =>
        /\ merged[1] = "file"
        /\ stdout = Report("merged", Cardinality(Matching))
        /\ Len(argv) = 2 => PlainBlocks(merged[2], text)
        /\ Len(argv) = 1 => BannerBlocks(merged[2], text)

\* C11 as stated: for a directory with a .txt file, the plain output is the
\* concatenation, in lexicographic order of the names, of each file's content
\* followed by "\n\n", and the annotated output holds for each file, in the
\* same order, a banner with its name immediately before its content; each
\* file's content appears once.
C11_MergedContent == MergedAs(RawText)

\* C11 amended: the same, for each file's content with its line endings
\* ("\r\n", "\r") read as "\n".
C11_MergedReadText == MergedAs(NormalText)

\* The plain merge of "A\r\nB" and "B" is "A\nB\n\nB\n\n".
C11_Witness ==
    /\ pc = "merged" /\ argv = <<OcrTextDir, "--clean">>
    /\ Cardinality(Matching) = 2
    /\ ocr_text[TxtPath(PageFileName(1))] = TextCrLf
    /\ ocr_text[TxtPath(PageFileName(2))] = TextB
    /\ merged = <<"file", <<65, 10, 66, 10, 10, 66, 10, 10>>>>

Ended(st) == {f \in Pages : status[f] = st}
Discovered == {f \in pdf_dir : HasSuffix(f, PdfExt)}
\* The pages that have been through the loop body, counters included.
CountedPages ==
    IF pc = "exited" THEN Len(pdf_files)
    ELSE IF pc \in {"page", "attempt", "opened", "returned"} THEN idx - 1
    ELSE 0

\* The summary reports total as the number of discovered pages, a failed
\* count that is the number of pages that ended failed, and a succeeded count
\* n; the two counts add up to total, and, during the run, to the number of
\* pages processed so far.
SummaryCounts(n) ==
    /\ pc \in {"page", "attempt", "opened", "returned", "exited"} =>
           success_count + failed_count = CountedPages
    /\ Completed =>
           /\ Len(pdf_files) = Cardinality(Discovered)
           /\ success_count + failed_count = Len(pdf_files)
           /\ failed_count = Cardinality(Ended("failed"))
           /\ success_count = n
           /\ SummaryLogged
           /\ log[Len(log) - 2] = LogLine("summary_ok", <<>>, n, Cardinality(Discovered))
           /\ log[Len(log) - 1] =
                  LogLine("summary_failed", <<>>, Cardinality(Ended("failed")),
                          Cardinality(Discovered))

\* C12 as stated: the succeeded count of the summary is the number of pages
\* that ended succeeded.
C12_SucceededOnly == SummaryCounts(Cardinality(Ended("succeeded")))

\* C12 amended: the succeeded count of the summary is the number of pages
\* that ended succeeded or skipped.
C12_SucceededOrSkipped ==
    SummaryCounts(Cardinality(Ended("succeeded") \cup Ended("skipped")))

\* A batch is complete in which one page was skipped and another failed.
C12_Witness ==
    /\ Completed /\ SummaryLogged
    /\ Ended("skipped") # {} /\ Ended("failed") # {}
    /\ success_count = 1 /\ failed_count = 1

\* The position of page file f in the sorted list.
IndexOf(f) == CHOOSE i \in DOMAIN pdf_files : pdf_files[i] = f
IsPause(e) == e = Sleep(SleepTime)
PausesBefore(k) == Cardinality({j \in 1..(k - 1) : IsPause(events[j])})
ProgressBefore(k) == Cardinality({j \in 1..(k - 1) : log[j].kind = "progress"})
InLoop == pc \in {"page", "attempt", "opened", "returned"}

\* C13: the pages are processed one at a time in the sorted order of their
\* names (a page is started only when every page before it has reached a
\* terminal state); the progress line [index/total] of a page is logged
\* before anything about that page; exactly one inter-page pause follows
\* every page but the last, whatever its terminal state, and none follows the
\* last page.
C13_OrderAndPacing ==
    (InLoop \/ Completed) =>
        /\ Range(pdf_files) = Discovered /\ IsSortedSeq(pdf_files)
        /\ \A i \in DOMAIN pdf_files :
               /\ (i < idx \/ pc = "exited") => status[pdf_files[i]] \in Terminal
               /\ (i > idx /\ pc # "exited") =>
                      status[pdf_files[i]] = "pending" /\ calls[pdf_files[i]] = 0
        /\ \A k \in DOMAIN log :
               /\ log[k].kind = "progress" =>
                      /\ log[k].a = ProgressBefore(k) + 1
                      /\ log[k].b = Len(pdf_files)
               /\ log[k].file # <<>> => IndexOf(log[k].file) = ProgressBefore(k)
        /\ ProgressBefore(Len(log) + 1) = (IF pc = "page" THEN idx - 1 ELSE idx)
        /\ PausesBefore(Len(events) + 1) = (IF pc = "returned" THEN idx - 1
                                           ELSE IF pc = "exited" THEN Len(pdf_files) - 1
                                           ELSE idx - 1)
        /\ \A k \in DOMAIN events :
               events[k].type = "call" =>
                   PausesBefore(k) = IndexOf(events[k].file) - 1

\* A batch is complete whose first page was skipped and whose second failed:
\* the one pause lies between them.
C13_Witness ==
    /\ Completed /\ Len(pdf_files) = 2
    /\ status[pdf_files[1]] = "skipped" /\ status[pdf_files[2]] = "failed"
    /\ Len(events) >= 2 /\ IsPause(events[1]) /\ events[2].type = "call"
    /\ ~IsPause(events[Len(events)])

FailureKinds == {"error", "timeout", "exception"}
LinesOf(f, kinds) == {k \in DOMAIN log : log[k].file = f /\ log[k].kind \in kinds}
IsPrefix(a, b) == Len(a) <= Len(b) /\ SubSeq(b, 1, Len(a)) = a

\* What the log of a run holds about its pages.
LogComplete ==
    \A f \in Pages :
        \* one attempt entry per network call
        /\ Cardinality(LinesOf(f, {"attempt"})) = calls[f]
        /\ calls[f] = CallsFor(f)
        \* one failure entry per failed attempt, right after its attempt entry
        /\ Cardinality(LinesOf(f, FailureKinds)) = failures[f]
        /\ \A k \in LinesOf(f, {"attempt"}) :
               IF k = Len(log) THEN pc = "opened" /\ pdf_files[idx] = f
               ELSE log[k + 1].file = f /\ log[k + 1].kind \in FailureKinds \cup {"success"}
        /\ \A k \in LinesOf(f, FailureKinds) : k > 1 /\ log[k - 1].kind = "attempt"
        \* one entry for the terminal state, after every other entry of the page
        /\ Cardinality(LinesOf(f, {"skip"})) = (IF status[f] = "skipped" THEN 1 ELSE 0)
        /\ Cardinality(LinesOf(f, {"success"})) = (IF status[f] = "succeeded" THEN 1 ELSE 0)
        /\ Cardinality(LinesOf(f, {"final_failure"})) = (IF status[f] = "failed" THEN 1 ELSE 0)
        /\ \A k \in LinesOf(f, {"skip", "success", "final_failure"}) :
               \A j \in DOMAIN log : log[j].file = f => j <= k

\* C14: while a process runs its log only grows by appended entries; every
\* network call has an attempt entry of its page; every failed attempt has a
\* failure entry (error, timeout or exception) right after its attempt entry,
\* before the next attempt or page; every page that ended skipped, succeeded
\* or failed has the matching skip, success or final-failure entry.
C14_LogComplete ==
    /\ [](pc \in {"page", "attempt", "opened", "returned", "exited"} => LogComplete)
    /\ [][pc' # "shell" => IsPrefix(log, log')]_vars

\* A batch is complete in which a page failed after a timeout and an error
\* response, each logged.
C14_Witness ==
    /\ Completed
    /\ \E f \in Pages :
           /\ status[f] = "failed"
           /\ LinesOf(f, {"timeout"}) # {} /\ LinesOf(f, {"error"}) # {}

\* The position in events of the i-th network call for page file f.
CallIndex(f, i) ==
    CHOOSE k \in DOMAIN events :
        /\ events[k] = Call(f)
        /\ Cardinality({j \in 1..k : events[j] = Call(f)}) = i
\* The sleep performed right after the i-th network call for f: its length in
\* tenths of a second, "pause" for the inter-page pause, "none" when no sleep
\* follows the call.
WaitAfter(f, i) ==
    LET k == CallIndex(f, i)
    IN IF k = Len(events) \/ events[k + 1].type # "sleep" THEN "none"
       ELSE IF IsPause(events[k + 1]) THEN "pause"
       ELSE events[k + 1].secs

\* C15: after the i-th failed attempt of a page with i < max_retries the
\* driver sleeps 2 * i seconds when the attempt ended in an error response (a
\* response that is not JSON included) and 5 seconds when it ended in a
\* timeout or another exception; after attempt max_retries it does not wait.
C15_Backoff ==
    /\ \A k \in DOMAIN log :
           (log[k].kind = "attempt" /\ k < Len(log) /\ log[k + 1].kind \in FailureKinds) =>
               LET f == log[k].file
                   i == log[k].a
                   w == WaitAfter(f, i)
               IN IF i < max_retries
                    THEN IF log[k + 1].kind = "error"
                           THEN /\ w = 2 * i * 10
                                /\ log[k + 2] = LogLine("wait", f, 2 * i * 10, 0)
                           ELSE w = 5 * 10
                    ELSE i = max_retries /\ w \in {"none", "pause"}
    /\ (pc = "attempt" /\ retry >= 1) =>
           LET w == WaitAfter(pdf_files[idx], retry)
           IN /\ result.kind \in {"dict", "fallback", "other"} /\ Len(result.parsed) = 0
                  /\ result.code # 1 => w = 2 * retry * 10
              /\ result.kind \in {"Timeout", "Exception"} => w = 5 * 10
              /\ (result.kind = "dict" /\ result.code = 1) => w = 5 * 10

\* A page is at its third attempt after a response that is not JSON: the
\* driver has just slept 4 seconds.
C15_Witness ==
    /\ pc = "attempt" /\ retry = 2 /\ result.kind = "fallback"
    /\ events[Len(events)] = Sleep(40)
    /\ \E k \in DOMAIN log : log[k].kind = "timeout"

\* t is the name f followed by ".txt".
NamedAfter(t, f) == Len(t) = Len(f) + 4 /\ SubSeq(t, 1, Len(f)) = f /\ HasSuffix(t, TxtExt)
\* The page files whose text file is t.
PagesOf(t) == {f \in Discovered : NamedAfter(t, f)}
ProperPrefix(a, b) == Len(a) < Len(b) /\ SubSeq(b, 1, Len(a)) = a

\* Every text file in the output directory is named after exactly one
\* discovered page file, that page's name followed by ".txt"; the text file
\* of a page that succeeded exists under that name; and of two page files in
\* pairs, with text files s and t, s sorts before t exactly when the first
\* page file sorts before the second.
NamingCorrespondence(pairs) ==
    (InLoop \/ Completed) =>
        /\ \A t \in DOMAIN ocr_text : Cardinality(PagesOf(t)) = 1
        /\ \A f \in Pages :
               (status[f] = "succeeded") =>
                   \E t \in DOMAIN ocr_text : PagesOf(t) = {f}
        /\ \A s, t \in DOMAIN ocr_text :
               \A f \in PagesOf(s), g \in PagesOf(t) :
                   /\ (f # g) => (s # t)
                   /\ (<<f, g>> \in pairs) => (LexLess(s, t) <=> LexLess(f, g))

\* C16 as stated: the text files correspond 1:1 to the discovered page files,
\* each named <page filename>.txt, and sort in the order of their page files.
C16_OrderPreserved == NamingCorrespondence(Discovered \X Discovered)

\* C16 amended: the same, the order being that of the page files for page
\* files of which neither name is the beginning of the other (as the names
\* the splitter gives).
C16_OrderPreservedPrefixFree ==
    NamingCorrespondence({p \in Discovered \X Discovered :
                              ~ProperPrefix(p[1], p[2]) /\ ~ProperPrefix(p[2], p[1])})

\* The text files of two pages of a split have been written.
C16_Witness ==
    /\ Completed
    /\ pdf_files = <<PageFileName(1), PageFileName(2)>>
    /\ status[PageFileName(1)] = "succeeded" /\ status[PageFileName(2)] = "succeeded"
    /\ DOMAIN ocr_text = {PageFileName(1) \o TxtExt, PageFileName(2) \o TxtExt}

\* C17: in a batch run no two network calls are made back to back: between a
\* network call and the next one of the run (of the same page or of a later
\* page) the driver sleeps at least once, for a retry back-off or for the
\* inter-page pause.
C17_NoBackToBackCalls ==
    /\ \A k \in 1..(Len(events) - 1) :
           events[k].type = "call" => events[k + 1].type = "sleep"
    /\ \A j, k \in DOMAIN events :
           (j < k /\ events[j].type = "call" /\ events[k].type = "call") =>
               \E h \in (j + 1)..(k - 1) : events[h].type = "sleep"
    /\ (pc = "attempt" /\ Len(events) > 0) => events[Len(events)].type = "sleep"

\* A run made three network calls: two for its first page, with a back-off
\* between them, and after the pause one for its second page.
C17_Witness ==
    /\ Len(events) >= 5
    /\ events[1].type = "call" /\ events[2].type = "sleep" /\ ~IsPause(events[2])
    /\ events[3] = events[1] /\ IsPause(events[4])
    /\ events[5].type = "call" /\ events[5] # events[1]

\* C18: whatever the failures are, the network calls made for a page never
\* exceed max_retries; no call is made for a page that has reached a terminal
\* state; a page that ended failed was attempted exactly max_retries times
\* (with max_retries = 0, not at all).
C18_RetryBound ==
    /\ [](\A f \in Pages :
             /\ calls[f] <= max_retries /\ CallsFor(f) = calls[f]
             /\ status[f] = "failed" =>
                    calls[f] = max_retries /\ failures[f] = max_retries
             /\ status[f] = "skipped" => calls[f] = 0)
    /\ [][\A f \in DOMAIN status :
             (status[f] \in Terminal /\ pc' # "shell") =>
                 (calls'[f] = calls[f] /\ \A k \in (Len(events) + 1)..Len(events') :
                                              events'[k] # Call(f))]_vars

\* A page ended failed after an error response, a timeout and an exception,
\* with max_retries = 3.
C18_Witness ==
    /\ max_retries = 3
    /\ \E f \in Pages :
           /\ status[f] = "failed" /\ calls[f] = 3
           /\ \A kind \in FailureKinds : LinesOf(f, {kind}) # {}

====
